---- MODULE Spec2Model ----
(***************************************************************************)
(* Price-ingestion and alert-evaluation loop of crypto-price-monitor:      *)
(* the Redis-backed cache (cacheService.ts), the CoinGecko client with its *)
(* pacing and 429 interceptors (coinGeckoService.ts), the alert service    *)
(* (alertService.ts) and the two cron jobs of app.ts.                      *)
(*                                                                         *)
(* Time is Date.now() in milliseconds.  Every await of the source is a     *)
(* step boundary; code between two awaits runs in one step.                *)
(***************************************************************************)
EXTENDS Integers, Sequences, FiniteSets, TLC

\* ------------------------------------------------------------ constants

MsPerSecond == 1000
MinuteMs == 60000
RateLimit == 30
PriceTtlSeconds == 30
HistoryTtlSeconds == 300
CacheDefaultTtl == 60000
DefaultRetryAfter == 60
CronSeconds == 10
SecondsPerMinute == 60
DayMs == 86400000

\* private readonly REQUEST_INTERVAL = 60000 / config.coinGeckoApi.rateLimit
REQUEST_INTERVAL == MinuteMs \div RateLimit

CronPeriod == CronSeconds * MsPerSecond

\* ---------------------------------------------------------------- bounds

\* unit steps of the clock after start (later instants are reached by timers)
MaxElapsed == 1
\* upstream requests sent in one run
MaxRequests == 3
\* price job firings in one run
MaxTicks == 2

\* the clock is observed at half the pacing interval
TimeStep == REQUEST_INTERVAL \div 2
\* the process starts one cron period before midnight
StartTime == DayMs - CronPeriod

\* ------------------------------------------------------------ data sets

\* config.supportedCoins (two of the ten ids)
supportedCoins == <<"bitcoin", "ethereum">>
\* coin lists a caller of getCurrentPrices asks for
CoinLists == {supportedCoins}
\* the coins query of GET /prices, split at its commas: supportedCoins in
\* another order, and with one id twice
RequestLists ==
  {supportedCoins, <<"ethereum", "bitcoin">>, <<"bitcoin", "bitcoin", "ethereum">>}
\* the coin id of GET /prices/:symbol and GET /prices/:symbol/history
CoinIds == {"bitcoin"}

\* JSON payloads of /coins/markets, by name; "null" is no payload
NoData == "null"
Markets == {"up", "flat"}
Quote(sym, price, chg) ==
  [symbol |-> sym, current_price |-> price, price_change_percentage_24h |-> chg]
Snapshot(m) ==
  IF m = "up"
    THEN <<Quote("btc", 61000, 6), Quote("eth", 2900, -6)>>
    ELSE IF m = "flat"
      THEN <<Quote("btc", 60000, 0), Quote("eth", 3000, 0)>>
      ELSE << >>

\* String.prototype.toUpperCase on the symbols in use
AsGiven(str) == str
ToUpperCase(str) ==
  IF str \in {"btc", "BTC"} THEN "BTC"
  ELSE IF str \in {"eth", "ETH"} THEN "ETH"
  ELSE str

\* socket ids of the connections a run opens, and the symbols their clients ask for
SocketIds == {"s1", "s2"}
SubscribeSymbols == {"btc", "BTC", "eth"}

TickProcs == {"tick1", "tick2"}
ApiProcs == {"api1", "api2"}
Procs == TickProcs \cup ApiProcs

\* const cacheKey = `prices:${coins.join(',')}`
CacheKey(coins) == <<"prices">> \o coins
Keys == {CacheKey(l) : l \in CoinLists}
\* the methods of CoinGeckoService that fetch for one coin, and their cache keys
\* `price:${coinId}` and `history:${coinId}:${days}`
Methods == {"getCoinPrice", "getHistoricalPrices"}
SingleKey(method, coinId) ==
  IF method = "getCoinPrice" THEN <<"price", coinId>>
  ELSE <<"history", coinId, "7">>
\* every key the service uses
AllKeys ==
  Keys \cup {CacheKey(l) : l \in RequestLists}
       \cup {SingleKey(method, c) : method \in Methods, c \in CoinIds}

\* values of the retry-after header of a 429 answer, in seconds
RetryAfterHeaders == {[present |-> FALSE, seconds |-> 0], [present |-> TRUE, seconds |-> 1]}
\* ttlSeconds arguments of cacheService.set; 0 stands for an omitted argument
TtlArgs == {0, PriceTtlSeconds}

VARIABLES
  now,              \* Date.now()
  redis,            \* the Redis key space: key -> entry
  isConnected,      \* CacheService.isConnected
  cacheOp,          \* the last direct cacheService call and what it returned
  lastRequestTime,  \* CoinGeckoService.lastRequestTime
  requestCount,     \* CoinGeckoService.requestCount
  prevRequestTime,  \* history: lastRequestTime before the last request was sent
  pc,               \* per caller: where its async function is suspended
  call,             \* per caller: the getCurrentPrices call in progress
  ret,              \* per caller: what its last getCurrentPrices call returned
  rules,            \* the Alert collection: rule id -> document
  users,            \* the User collection: user id -> document
  tk,               \* per price tick: the locals of checkAlerts / triggerAlert
  cron,             \* the two node-cron jobs and the process that runs them
  fired,            \* history: 'alert-triggered' events per rule
  mailed,           \* history: alert emails dispatched per rule
  emitted,          \* history: 'price-update' broadcasts
  history,          \* history: insertMany calls that stored a price sample
  caught,           \* history: exceptions caught by the cron callbacks
  connectedClients, \* SocketService.connectedClients: socket id -> entry
  sockets,          \* the socket.io server: socket id -> connected, rooms joined
  inbox,            \* history: per socket, the events received since the last
                    \* price broadcast began
  apiOp,            \* history: the last request served by the alert / profile API
  firedAtDelete     \* history: per rule, its trigger events when it was deleted

clientVars == <<lastRequestTime, requestCount, prevRequestTime>>
cacheVars == <<redis, isConnected>>
storeVars == <<rules, users>>
schedVars == <<tk, cron, fired, mailed, emitted, history, caught>>
socketVars == <<connectedClients, sockets, inbox>>
apiVars == <<apiOp, firedAtDelete>>

\* ------------------------------------------------------------ Redis store

NoEntry == [present |-> FALSE, data |-> NoData, timestamp |-> 0, ttl |-> 0,
            expires |-> FALSE, expireAt |-> 0]

\* Redis answers for a key written by SETEX as for a missing key once its time
\* to live has passed
RedisExpired(e) == e.present /\ e.expires /\ now > e.expireAt

\* cacheData of CacheService.set and the setEx / set call that stores it
CacheData(value, ttlSeconds) ==
  [present |-> TRUE, data |-> value, timestamp |-> now,
   ttl |-> IF ttlSeconds # 0 THEN ttlSeconds * MsPerSecond ELSE CacheDefaultTtl,
   expires |-> ttlSeconds # 0,
   expireAt |-> IF ttlSeconds # 0 THEN now + ttlSeconds * MsPerSecond ELSE 0]

\* ------------------------------------------------- CacheService methods
\* Each method is given the outcome of its Redis calls: fail = the client
\* call rejects.  An outcome is what the caller observes.

\* the Redis call is made (the service believes it is connected) and rejects
ClientRejects(fail) == isConnected /\ fail

\* catch (error) { logger.error(...); return <default> }
CatchRethrows(default) == [value |-> default, raised |-> TRUE]
Catch(default) == [value |-> default, raised |-> FALSE]
Returns(v) == [value |-> v, raised |-> FALSE]

\* const cachedData = await this.client.get(key)
ClientGet(key) == IF RedisExpired(redis[key]) THEN NoEntry ELSE redis[key]

\* if (Date.now() - parsed.timestamp > parsed.ttl)
ExpiredAtTtl(e) == now - e.timestamp >= e.ttl
Expired(e) == now - e.timestamp > e.ttl

\* CacheService.get: value returned and whether the call raised
CacheGetOutcome(key, failGet) ==
  IF ~isConnected THEN Returns(NoData)
  ELSE IF ClientRejects(failGet) THEN Catch(NoData)
  ELSE IF ~ClientGet(key).present THEN Returns(NoData)
  ELSE IF Expired(ClientGet(key)) THEN Returns(NoData)
  ELSE Returns(ClientGet(key).data)

\* CacheService.delete
CacheDeleteOutcome(fail) ==
  IF ~isConnected THEN Returns(NoData)
  ELSE IF ClientRejects(fail) THEN Catch(NoData)
  ELSE Returns(NoData)
CacheDeleteStore(key, fail) ==
  IF ~isConnected \/ ClientRejects(fail) THEN redis
  ELSE [redis EXCEPT ![key] = NoEntry]

\* CacheService.get: the key space it leaves (await this.delete(key) on expiry;
\* Redis itself removes a key whose time to live has passed when it is read)
CacheGetStore(key, failGet, failDel) ==
  IF ~isConnected \/ ClientRejects(failGet) THEN redis
  ELSE IF RedisExpired(redis[key]) THEN [redis EXCEPT ![key] = NoEntry]
  ELSE IF redis[key].present /\ Expired(redis[key]) THEN CacheDeleteStore(key, failDel)
  ELSE redis

\* CacheService.set
CacheSetOutcome(fail) ==
  IF ~isConnected THEN Returns(NoData)
  ELSE IF ClientRejects(fail) THEN Catch(NoData)
  ELSE Returns(NoData)
CacheSetStore(key, value, ttlSeconds, fail) ==
  IF ~isConnected \/ ClientRejects(fail) THEN redis
  ELSE [redis EXCEPT ![key] = CacheData(value, ttlSeconds)]

\* CacheService.exists: return result === 1
CacheExistsOutcome(key, fail) ==
  IF ~isConnected THEN Returns(FALSE)
  ELSE IF ClientRejects(fail) THEN Catch(FALSE)
  ELSE Returns(ClientGet(key).present)

\* what a direct call leaves in cacheOp: the method and its key, whether the
\* service was disconnected or the Redis call failed, whether the call changed
\* the store, the value returned (get), whether Redis answered with an entry
\* (get) or the boolean returned (exists), and whether the call raised
Op(name, key, down, changed, value, found, raised) ==
  [op |-> name, key |-> key, down |-> down, changed |-> changed,
   value |-> value, found |-> found, raised |-> raised]

NoOp == [op |-> "none", key |-> CacheKey(supportedCoins), down |-> FALSE,
         changed |-> FALSE, value |-> NoData, found |-> FALSE, raised |-> FALSE]

\* ----------------------------------------------- direct cache consumers
\* Calls of the four methods by a consumer other than the price client, made
\* while no getCurrentPrices call is in progress.

Quiet == \A p \in Procs : pc[p] = "idle"

CacheSet(key, value, ttlSeconds, fail) ==
  /\ Quiet
  /\ redis' = CacheSetStore(key, value, ttlSeconds, fail)
  /\ cacheOp' = Op("set", key, ~isConnected \/ fail,
                   CacheSetStore(key, value, ttlSeconds, fail) # redis, NoData, FALSE,
                   CacheSetOutcome(fail).raised)
  /\ UNCHANGED <<now, socketVars, isConnected, clientVars, pc, call, ret, storeVars,
                 apiVars, schedVars>>

CacheGet(key, failGet, failDel) ==
  /\ Quiet
  /\ redis' = CacheGetStore(key, failGet, failDel)
  /\ cacheOp' = Op("get", key, ~isConnected \/ failGet,
                   CacheGetStore(key, failGet, failDel) # redis,
                   CacheGetOutcome(key, failGet).value,
                   isConnected /\ ~failGet /\ ClientGet(key).present,
                   CacheGetOutcome(key, failGet).raised)
  /\ UNCHANGED <<now, socketVars, isConnected, clientVars, pc, call, ret, storeVars,
                 apiVars, schedVars>>

CacheDelete(key, fail) ==
  /\ Quiet
  /\ redis' = CacheDeleteStore(key, fail)
  /\ cacheOp' = Op("delete", key, ~isConnected \/ fail,
                   CacheDeleteStore(key, fail) # redis, NoData, FALSE,
                   CacheDeleteOutcome(fail).raised)
  /\ UNCHANGED <<now, socketVars, isConnected, clientVars, pc, call, ret, storeVars,
                 apiVars, schedVars>>

CacheExists(key, fail) ==
  /\ Quiet
  /\ cacheOp' = Op("exists", key, ~isConnected \/ fail, FALSE, NoData,
                   CacheExistsOutcome(key, fail).value,
                   CacheExistsOutcome(key, fail).raised)
  /\ UNCHANGED <<now, socketVars, cacheVars, clientVars, pc, call, ret, storeVars,
                 apiVars, schedVars>>

\* this.client.on('error', ...) and this.client.on('connect', ...)
RedisError ==
  /\ isConnected
  /\ isConnected' = FALSE
  /\ UNCHANGED <<now, socketVars, redis, cacheOp, clientVars, pc, call, ret, storeVars,
                 apiVars, schedVars>>

RedisConnect ==
  /\ ~isConnected
  /\ isConnected' = TRUE
  /\ UNCHANGED <<now, socketVars, redis, cacheOp, clientVars, pc, call, ret, storeVars,
                 apiVars, schedVars>>

\* ------------------------------------------------------ CoinGeckoService

\* readable, heldFresh and heldStale are history: whether the first cache read
\* reached Redis, and the payload of the entry Redis held for the key when the
\* call began, if that entry was younger / older than its ttl
NoCall == [method |-> "getCurrentPrices", coins |-> supportedCoins, wakeAt |-> 0,
           attempts |-> 0, readable |-> FALSE, heldFresh |-> NoData,
           heldStale |-> NoData]
NoRet == [kind |-> "none", data |-> NoData, via |-> "none", upstream |-> "none"]

\* the request is handed to the network: lastRequestTime = Date.now(); requestCount++
Send(p, c) ==
  /\ requestCount < MaxRequests
  /\ lastRequestTime' = now
  /\ prevRequestTime' = lastRequestTime
  /\ requestCount' = requestCount + 1
  /\ call' = [call EXCEPT ![p] = [c EXCEPT !.attempts = c.attempts + 1]]
  /\ pc' = [pc EXCEPT ![p] = "inflight"]

\* request interceptor up to its await: wait out the rest of REQUEST_INTERVAL
RequestInterceptor(p, c) ==
  LET timeSinceLastRequest == now - lastRequestTime IN
  IF timeSinceLastRequest < REQUEST_INTERVAL
    THEN /\ call' = [call EXCEPT ![p] =
                       [c EXCEPT !.wakeAt = now + (REQUEST_INTERVAL - timeSinceLastRequest)]]
         /\ pc' = [pc EXCEPT ![p] = "pacing"]
         /\ UNCHANGED clientVars
    ELSE Send(p, c)

\* an entry younger / older than its time to live
Younger(e) == e.present /\ now - e.timestamp < e.ttl
Older(e) == e.present /\ now - e.timestamp > e.ttl

\* if (cachedData) { return cachedData }
NeverHit(cachedData) == FALSE
IsHit(cachedData) == cachedData # NoData

\* getCurrentPrices from its call to its first suspension in the client
BeginFetch(p, coins, failGet, failDel) ==
  LET key == CacheKey(coins)
      cachedData == CacheGetOutcome(key, failGet).value
      c == [NoCall EXCEPT !.coins = coins,
                          !.readable = isConnected /\ ~failGet,
                          !.heldFresh = IF Younger(redis[key]) THEN redis[key].data
                                        ELSE NoData,
                          !.heldStale = IF Older(redis[key]) THEN redis[key].data
                                        ELSE NoData]
  IN /\ redis' = CacheGetStore(key, failGet, failDel)
     /\ IF IsHit(cachedData)
          THEN /\ ret' = [ret EXCEPT ![p] = [NoRet EXCEPT !.kind = "ok", !.data = cachedData,
                                               !.via = "cache"]]
               /\ call' = [call EXCEPT ![p] = c]
               /\ pc' = [pc EXCEPT ![p] = "returned"]
               /\ UNCHANGED clientVars
          ELSE /\ ret' = [ret EXCEPT ![p] = NoRet]
               /\ RequestInterceptor(p, c)

\* PriceController.getCurrentPrices
ApiGetCurrentPrices(p, coins, failGet, failDel) ==
  /\ p \in ApiProcs
  /\ pc[p] = "idle"
  /\ p = "api1" \/ pc["api1"] # "idle"
  /\ BeginFetch(p, coins, failGet, failDel)
  /\ cacheOp' = NoOp
  /\ UNCHANGED <<now, socketVars, isConnected, storeVars, apiVars, schedVars>>

\* res.json(response) or next(error)
ApiRespond(p) ==
  /\ p \in ApiProcs
  /\ pc[p] = "returned"
  /\ pc' = [pc EXCEPT ![p] = "idle"]
  /\ call' = [call EXCEPT ![p] = NoCall]
  /\ ret' = [ret EXCEPT ![p] = NoRet]
  /\ UNCHANGED <<now, socketVars, cacheVars, cacheOp, clientVars, storeVars, apiVars,
                 schedVars>>

\* the setTimeout of the request interceptor fires
PacingWake(p) ==
  /\ pc[p] = "pacing"
  /\ now >= call[p].wakeAt
  /\ Send(p, call[p])
  /\ UNCHANGED <<now, socketVars, cacheVars, cacheOp, ret, storeVars, apiVars,
                 schedVars>>

\* 2xx answer: cache the payload for 30 seconds and return it
UpstreamOk(p, m, failSet) ==
  /\ pc[p] = "inflight"
  /\ call[p].method = "getCurrentPrices"
  /\ redis' = CacheSetStore(CacheKey(call[p].coins), m, PriceTtlSeconds, failSet)
  /\ ret' = [ret EXCEPT ![p] = [NoRet EXCEPT !.kind = "ok", !.data = m, !.via = "upstream",
                                             !.upstream = "ok"]]
  /\ pc' = [pc EXCEPT ![p] = "returned"]
  /\ UNCHANGED <<now, socketVars, isConnected, cacheOp, clientVars, call, storeVars,
                 apiVars, schedVars>>

\* const retryAfter = error.response.headers['retry-after'] || 60
RetryAfter(hdr) == IF hdr.present THEN hdr.seconds ELSE DefaultRetryAfter

\* response interceptor, status 429: sleep retryAfter seconds
UpstreamRateLimited(p, hdr) ==
  /\ pc[p] = "inflight"
  /\ call' = [call EXCEPT ![p].wakeAt = now + RetryAfter(hdr) * MsPerSecond]
  /\ pc' = [pc EXCEPT ![p] = "retryWait"]
  /\ UNCHANGED <<now, socketVars, cacheVars, cacheOp, clientVars, ret, storeVars,
                 apiVars, schedVars>>

\* ... then return this.api.request(error.config): the request interceptor again
RetryWake(p) ==
  /\ pc[p] = "retryWait"
  /\ now >= call[p].wakeAt
  /\ RequestInterceptor(p, call[p])
  /\ UNCHANGED <<now, socketVars, cacheVars, cacheOp, ret, storeVars, apiVars,
                 schedVars>>

\* the request rejects (network error, timeout, non-2xx other than 429):
\* the catch branch of getCurrentPrices
UpstreamError(p, failGet, failDel) ==
  LET key == CacheKey(call[p].coins)
      fallbackData == CacheGetOutcome(key, failGet).value
  IN /\ pc[p] = "inflight"
     /\ call[p].method = "getCurrentPrices"
     /\ redis' = CacheGetStore(key, failGet, failDel)
     /\ ret' = [ret EXCEPT ![p] =
                  [NoRet EXCEPT !.kind = IF fallbackData # NoData THEN "ok" ELSE "throw",
                                !.data = fallbackData,
                                !.via = IF fallbackData # NoData THEN "fallback" ELSE "none",
                                !.upstream = "failed"]]
     /\ pc' = [pc EXCEPT ![p] = "returned"]
     /\ UNCHANGED <<now, socketVars, isConnected, cacheOp, clientVars, call, storeVars,
                    apiVars, schedVars>>

\* PriceController.getCoinPrice / getPriceHistory: getCoinPrice /
\* getHistoricalPrices from the call to the first suspension in the client
ApiGetSingle(p, method, coinId, failGet, failDel) ==
  LET key == SingleKey(method, coinId)
      cachedData == CacheGetOutcome(key, failGet).value
      c == [NoCall EXCEPT !.method = method,
                          !.coins = <<coinId>>,
                          !.readable = isConnected /\ ~failGet,
                          !.heldFresh = IF Younger(redis[key]) THEN redis[key].data
                                        ELSE NoData,
                          !.heldStale = IF Older(redis[key]) THEN redis[key].data
                                        ELSE NoData]
  IN /\ p \in ApiProcs
     /\ pc[p] = "idle"
     /\ p = "api1" \/ pc["api1"] # "idle"
     /\ redis' = CacheGetStore(key, failGet, failDel)
     /\ IF IsHit(cachedData)
          THEN /\ ret' = [ret EXCEPT ![p] = [NoRet EXCEPT !.kind = "ok", !.data = cachedData,
                                               !.via = "cache"]]
               /\ call' = [call EXCEPT ![p] = c]
               /\ pc' = [pc EXCEPT ![p] = "returned"]
               /\ UNCHANGED clientVars
          ELSE /\ ret' = [ret EXCEPT ![p] = NoRet]
               /\ RequestInterceptor(p, c)
     /\ cacheOp' = NoOp
     /\ UNCHANGED <<now, socketVars, isConnected, storeVars, apiVars, schedVars>>

\* 2xx answer to getCoinPrice / getHistoricalPrices: payload m is cached and
\* returned; getCoinPrice returns null for a payload without the coin
SingleOk(p, m, failSet) ==
  LET method == call[p].method
      notFound == method = "getCoinPrice" /\ m = NoData
  IN /\ pc[p] = "inflight"
     /\ method \in Methods
     /\ redis' = IF notFound THEN redis
                 ELSE CacheSetStore(SingleKey(method, call[p].coins[1]), m,
                                    IF method = "getCoinPrice" THEN PriceTtlSeconds
                                    ELSE HistoryTtlSeconds, failSet)
     /\ ret' = [ret EXCEPT ![p] = [NoRet EXCEPT !.kind = "ok", !.data = m,
                                                !.via = "upstream", !.upstream = "ok"]]
     /\ pc' = [pc EXCEPT ![p] = "returned"]
     /\ UNCHANGED <<now, socketVars, isConnected, cacheOp, clientVars, call, storeVars,
                    apiVars, schedVars>>

\* the request rejects: the catch branch of getCoinPrice / getHistoricalPrices
\* logs the error and returns null / [], here NoData / "[]"
SingleError(p) ==
  /\ pc[p] = "inflight"
  /\ call[p].method \in Methods
  /\ ret' = [ret EXCEPT ![p] = [NoRet EXCEPT !.kind = "ok",
                                             !.data = IF call[p].method = "getCoinPrice"
                                                        THEN NoData ELSE "[]",
                                             !.upstream = "failed"]]
  /\ pc' = [pc EXCEPT ![p] = "returned"]
  /\ UNCHANGED <<now, socketVars, cacheVars, cacheOp, clientVars, call, storeVars,
                 apiVars, schedVars>>

\* ---------------------------------------------------------- SocketService
\*
\* this.io is the server that initialize() created.  The replies a handler
\* sends to its own socket ('connection-status', 'subscription-confirmed',
\* 'pong') change nothing in the service and are not recorded.

\* connectedClients.get(socketId) of an id without entry, and a new entry
NoClient == [present |-> FALSE, subscribedSymbols |-> {}]
NewClient == [present |-> TRUE, subscribedSymbols |-> {}]
NoSocket == [connected |-> FALSE, rooms |-> {}]
NewSocket == [connected |-> TRUE, rooms |-> {}]

\* `symbol:${symbol.toUpperCase()}`
RoomAsGiven(symbol) == "symbol:" \o symbol
Room(symbol) == "symbol:" \o ToUpperCase(symbol)

\* an event as a client receives it: its name, the address it was emitted to,
\* and its payload (the snapshot list, one snapshot, or the rule)
Receipt(event, via, market, symbol, rule) ==
  [event |-> event, via |-> via, market |-> market, symbol |-> symbol, rule |-> rule]
ToAll == "all"

\* socket.io: io.emit reaches the connected sockets, io.to(room).emit the
\* sockets that have joined the room
Connected == {id \in SocketIds : sockets[id].connected}
InRoom(room) == {id \in SocketIds : room \in sockets[id].rooms}

\* this.io.on('connection', socket => ...): a client connects
Connection(id) ==
  /\ ~sockets[id].connected
  /\ sockets' = [sockets EXCEPT ![id] = NewSocket]
  /\ connectedClients' = [connectedClients EXCEPT ![id] = NewClient]
  /\ inbox' = [inbox EXCEPT ![id] = {}]
  /\ UNCHANGED <<now, cacheVars, cacheOp, clientVars, pc, call, ret, storeVars, apiVars,
                 schedVars>>

\* socket.on('disconnect', ...): connectedClients.delete(socket.id); socket.io
\* has taken the socket out of its rooms
Forgotten(clients, id) == clients
Deleted(clients, id) == [clients EXCEPT ![id] = NoClient]
Disconnect(id) ==
  /\ sockets[id].connected
  /\ sockets' = [sockets EXCEPT ![id] = NoSocket]
  /\ connectedClients' = Deleted(connectedClients, id)
  /\ UNCHANGED <<now, cacheVars, cacheOp, clientVars, pc, call, ret, storeVars, apiVars,
                 schedVars, inbox>>

\* SocketService.subscribeToSymbol: the entries and the rooms it leaves
subscribeToSymbol(clients, socks, socketId, symbol) ==
  IF ~clients[socketId].present
    THEN [clients |-> clients, sockets |-> socks]
    ELSE [clients |-> [clients EXCEPT ![socketId].subscribedSymbols =
                         @ \cup {ToUpperCase(symbol)}],
          sockets |-> [socks EXCEPT ![socketId].rooms = @ \cup {Room(symbol)}]]

\* SocketService.unsubscribeFromSymbol: the entries and the rooms it leaves
unsubscribeFromSymbol(clients, socks, socketId, symbol) ==
  IF ~clients[socketId].present
    THEN [clients |-> clients, sockets |-> socks]
    ELSE [clients |-> [clients EXCEPT ![socketId].subscribedSymbols =
                         @ \ {ToUpperCase(symbol)}],
          sockets |-> [socks EXCEPT ![socketId].rooms = @ \ {Room(symbol)}]]

\* socket.on('subscribe-to-symbol', symbol => this.subscribeToSymbol(socket.id, symbol));
\* the method is also entered with an id that has no entry
Subscribe(id, symbol) ==
  /\ connectedClients' = subscribeToSymbol(connectedClients, sockets, id, symbol).clients
  /\ sockets' = subscribeToSymbol(connectedClients, sockets, id, symbol).sockets
  /\ UNCHANGED <<now, cacheVars, cacheOp, clientVars, pc, call, ret, storeVars, apiVars,
                 schedVars, inbox>>

\* socket.on('unsubscribe-from-symbol', symbol => this.unsubscribeFromSymbol(socket.id, symbol))
Unsubscribe(id, symbol) ==
  /\ connectedClients' = unsubscribeFromSymbol(connectedClients, sockets, id, symbol).clients
  /\ sockets' = unsubscribeFromSymbol(connectedClients, sockets, id, symbol).sockets
  /\ UNCHANGED <<now, cacheVars, cacheOp, clientVars, pc, call, ret, storeVars, apiVars,
                 schedVars, inbox>>

\* SocketService.broadcastPriceUpdate(priceData): the whole list to everyone,
\* each snapshot to the room of its symbol
broadcastSkipped(market) == UNCHANGED <<emitted, inbox>>
broadcastPriceUpdate(market) ==
  /\ emitted' = emitted + 1
  /\ inbox' =
       [id \in SocketIds |->
          {Receipt("price-update", ToAll, market, "", 0) : c \in Connected \cap {id}}
          \cup {Receipt("symbol-price-update", Room(Snapshot(market)[i].symbol), market,
                        Snapshot(market)[i].symbol, 0) :
                  i \in {j \in 1..Len(Snapshot(market)) :
                           id \in InRoom(Room(Snapshot(market)[j].symbol))}}]

\* SocketService.sendAlert(alert) without targetSocketId:
\* this.io.emit('alert-triggered', alertData)
Nobody == {}
AlertRecipients == Connected
sendAlert(alert, market) ==
  /\ fired' = [fired EXCEPT ![alert.id] = fired[alert.id] + 1]
  /\ inbox' =
       [id \in SocketIds |->
          inbox[id] \cup {Receipt("alert-triggered", ToAll, market, alert.doc.symbol,
                                  alert.id) : c \in AlertRecipients \cap {id}}]

\* ---------------------------------------------------------- AlertService

RuleIds == {1, 2}
UserIds == {"u1"}

Rule(uid, sym, cond, hasTarget, target, hasPercent, percent) ==
  [exists |-> TRUE, isActive |-> TRUE, userId |-> uid, symbol |-> sym,
   condition |-> cond, targetSet |-> hasTarget, targetPrice |-> target,
   percentSet |-> hasPercent, percentageChange |-> percent]

\* the Alert collection when the process starts
InitialRules ==
  [r \in RuleIds |->
     IF r = 1 THEN Rule("u1", "BTC", "above", TRUE, 60000, FALSE, 0)
              ELSE Rule("u1", "ETH", "percent_decrease", FALSE, 0, TRUE, 5)]

\* the User collection when the process starts
InitialUsers ==
  {[u \in UserIds |-> [exists |-> TRUE, emailNotifications |-> e]] : e \in BOOLEAN}

\* AlertService.checkPercentageChange
checkPercentageChangeUnguarded(alert, priceData, direction) ==
  IF direction = "increase"
    THEN priceData.price_change_percentage_24h >= alert.percentageChange
    ELSE priceData.price_change_percentage_24h <= -alert.percentageChange
checkPercentageChange(alert, priceData, direction) ==
  IF ~alert.percentSet THEN FALSE
  ELSE IF direction = "increase"
    THEN priceData.price_change_percentage_24h >= alert.percentageChange
    ELSE priceData.price_change_percentage_24h <= -alert.percentageChange

\* AlertService.evaluateAlert
evaluateAlertInclusive(alert, priceData) ==
  CASE alert.condition = "above" ->
         alert.targetSet /\ priceData.current_price >= alert.targetPrice
    [] alert.condition = "below" ->
         alert.targetSet /\ priceData.current_price <= alert.targetPrice
    [] alert.condition = "percent_increase" ->
         checkPercentageChange(alert, priceData, "increase")
    [] alert.condition = "percent_decrease" ->
         checkPercentageChange(alert, priceData, "decrease")
    [] OTHER -> FALSE
evaluateAlert(alert, priceData) ==
  CASE alert.condition = "above" ->
         alert.targetSet /\ priceData.current_price > alert.targetPrice
    [] alert.condition = "below" ->
         alert.targetSet /\ priceData.current_price < alert.targetPrice
    [] alert.condition = "percent_increase" ->
         checkPercentageChange(alert, priceData, "increase")
    [] alert.condition = "percent_decrease" ->
         checkPercentageChange(alert, priceData, "decrease")
    [] OTHER -> FALSE

\* priceData.find(data => data.symbol.toUpperCase() === alert.symbol.toUpperCase())
FindPriceExact(priceData, alert) ==
  LET hits == {i \in 1..Len(priceData) : priceData[i].symbol = alert.symbol}
  IN IF hits = {} THEN 0 ELSE CHOOSE i \in hits : \A j \in hits : i <= j
FindPrice(priceData, alert) ==
  LET hits == {i \in 1..Len(priceData) :
                 ToUpperCase(priceData[i].symbol) = ToUpperCase(alert.symbol)}
  IN IF hits = {} THEN 0 ELSE CHOOSE i \in hits : \A j \in hits : i <= j

\* the body of the for loop of checkAlerts up to the call of triggerAlert
Triggers(alert, priceData) ==
  /\ FindPrice(priceData, alert) # 0
  /\ evaluateAlert(alert, priceData[FindPrice(priceData, alert)])

\* Alert.find({ isActive: true }): the documents as read, in id order
RECURSIVE ActiveFrom(_)
ActiveFrom(r) ==
  IF r \notin RuleIds THEN << >>
  ELSE (IF rules[r].exists /\ rules[r].isActive THEN <<[id |-> r, doc |-> rules[r]]>>
        ELSE << >>) \o ActiveFrom(r + 1)
FindAll ==
  SelectSeq([r \in 1..Cardinality(RuleIds) |-> [id |-> r, doc |-> rules[r]]],
            LAMBDA alert : alert.doc.exists)
FindActive == ActiveFrom(1)

NoUser == [exists |-> FALSE, emailNotifications |-> FALSE]
NoTick == [alerts |-> << >>, idx |-> 0, user |-> NoUser]

\* the for loop of checkAlerts from position i: the first alert that triggers,
\* or 0 when the loop ends
StopAfterFirst(alerts, i, priceData) ==
  IF i = 1 /\ Len(alerts) >= 1 /\ Triggers(alerts[1].doc, priceData) THEN 1 ELSE 0
RECURSIVE NextTriggered(_, _, _)
NextTriggered(alerts, i, priceData) ==
  IF i > Len(alerts) THEN 0
  ELSE IF Triggers(alerts[i].doc, priceData) THEN i
  ELSE NextTriggered(alerts, i + 1, priceData)

\* if (Math.floor(Date.now() / 1000) % 60 === 0)
HistoryDue == (now \div MsPerSecond) % SecondsPerMinute = 0

\* checkAlerts continues its loop at position i of alerts, calls triggerAlert
\* (await User.findById) for the next alert that triggers, or returns to the
\* tick, which stores the price history or ends
ContinueCheck(p, alerts, i) ==
  LET j == NextTriggered(alerts, i, Snapshot(ret[p].data)) IN
  IF j # 0
    THEN /\ tk' = [tk EXCEPT ![p] = [alerts |-> alerts, idx |-> j, user |-> NoUser]]
         /\ pc' = [pc EXCEPT ![p] = "findUser"]
         /\ UNCHANGED <<call, ret>>
    ELSE /\ tk' = [tk EXCEPT ![p] = NoTick]
         /\ IF HistoryDue
              THEN /\ pc' = [pc EXCEPT ![p] = "storeHistory"]
                   /\ UNCHANGED <<call, ret>>
              ELSE /\ pc' = [pc EXCEPT ![p] = "idle"]
                   /\ call' = [call EXCEPT ![p] = NoCall]
                   /\ ret' = [ret EXCEPT ![p] = NoRet]

\* const alerts = await Alert.find({ isActive: true }): the answer arrives
FindAlerts(p, fail) ==
  /\ pc[p] = "findAlerts"
  /\ IF fail THEN ContinueCheck(p, << >>, 1) ELSE ContinueCheck(p, FindActive, 1)
  /\ UNCHANGED <<now, socketVars, cacheVars, cacheOp, clientVars, storeVars, apiVars,
                 cron, fired, mailed, emitted, history, caught>>

\* if (user && user.preferences.emailNotifications)
EmailAlways(user) == TRUE
EmailEligible(user) == user.exists /\ user.emailNotifications

\* const user = await User.findById(alert.userId): the answer arrives; then the
\* socket notification and, if enabled, the email is sent
FindUser(p, fail) ==
  LET alert == tk[p].alerts[tk[p].idx]
      user == IF alert.doc.userId \in UserIds THEN users[alert.doc.userId] ELSE NoUser
  IN /\ pc[p] = "findUser"
     /\ IF fail
          THEN /\ ContinueCheck(p, tk[p].alerts, tk[p].idx + 1)
               /\ UNCHANGED <<fired, mailed, inbox>>
          ELSE /\ sendAlert(alert, ret[p].data)
               /\ mailed' = IF EmailEligible(user)
                              THEN [mailed EXCEPT ![alert.id] = mailed[alert.id] + 1]
                              ELSE mailed
               /\ tk' = [tk EXCEPT ![p].user = user]
               /\ pc' = [pc EXCEPT ![p] =
                           IF EmailEligible(user) THEN "sendEmail" ELSE "deactivate"]
               /\ UNCHANGED <<call, ret>>
     /\ UNCHANGED <<now, connectedClients, sockets, cacheVars, cacheOp, clientVars,
                    storeVars, apiVars, cron, emitted, history, caught>>

\* await emailService.sendAlertEmail(...): sendMail resolves, or rejects and
\* sendAlertEmail rethrows into the catch of triggerAlert
SendEmail(p, fail) ==
  /\ pc[p] = "sendEmail"
  /\ IF fail
       THEN ContinueCheck(p, tk[p].alerts, tk[p].idx + 1)
       ELSE /\ pc' = [pc EXCEPT ![p] = "deactivate"]
            /\ UNCHANGED <<tk, call, ret>>
  /\ UNCHANGED <<now, socketVars, cacheVars, cacheOp, clientVars, storeVars, apiVars,
                 cron, fired, mailed, emitted, history, caught>>

\* Alert.findOneAndUpdate(query, updateData): the collection it leaves
updateAlert(r, active) ==
  IF rules[r].exists THEN [rules EXCEPT ![r].isActive = active] ELSE rules

\* await this.updateAlert(alert._id.toString(), { isActive: false })
Deactivate(p, fail) ==
  /\ pc[p] = "deactivate"
  /\ rules' = IF fail THEN rules ELSE updateAlert(tk[p].alerts[tk[p].idx].id, FALSE)
  /\ ContinueCheck(p, tk[p].alerts, tk[p].idx + 1)
  /\ UNCHANGED <<now, socketVars, cacheVars, cacheOp, clientVars, users, apiVars, cron,
                 fired, mailed, emitted, history, caught>>

\* ------------------------------------------- alert and profile API
\*
\* The routes run behind protect, so that req.user is the authenticated user;
\* each handler makes one call of the store.

\* the users that call the API; the User collection of the model holds UserIds
ApiUsers == {"u1", "u2"}
Authenticated(u) == u \in UserIds => users[u].exists

NoRule ==
  [exists |-> FALSE, isActive |-> FALSE, userId |-> "", symbol |-> "",
   condition |-> "", targetSet |-> FALSE, targetPrice |-> 0,
   percentSet |-> FALSE, percentageChange |-> 0]
ApiOp(name, u, r, code) == [op |-> name, user |-> u, rule |-> r, status |-> code]
NotDeleted == 0 - 1

\* request bodies: a field that is absent has its has-flag off
Body(hasCondition, cond, hasTarget, target, hasPercent, percent, hasActive, active) ==
  [hasCondition |-> hasCondition, condition |-> cond, hasTarget |-> hasTarget,
   targetPrice |-> target, hasPercent |-> hasPercent, percentageChange |-> percent,
   hasActive |-> hasActive, isActive |-> active]
ApiConditions == {"above", "below", "percent_increase", "percent_decrease"}

\* validateAlert: condition required, the threshold of the condition required,
\* the other threshold optional
validateAlert(body) ==
  /\ body.hasCondition
  /\ body.condition \in ApiConditions
  /\ body.condition \in {"above", "below"} => body.hasTarget
  /\ body.condition \in {"percent_increase", "percent_decrease"} => body.hasPercent
\* validateUpdateAlert: every field optional, at least one present
validateUpdateAlert(body) ==
  /\ body.hasCondition => body.condition \in ApiConditions
  /\ body.hasCondition \/ body.hasTarget \/ body.hasPercent \/ body.hasActive

\* the bodies that clients send
Bodies ==
  {Body(c # "", c, t # 0, t, q # 0, q, a # "", a = "true") :
     c \in {"", "above", "percent_increase"}, t \in {0, 61000}, q \in {0, 6},
     a \in {"", "false"}}

\* new Alert(alertData): the document that save() stores once the schema's
\* required validators have passed
NewAlert(u, symbol, body) ==
  [exists |-> TRUE, isActive |-> IF body.hasActive THEN body.isActive ELSE TRUE,
   userId |-> u, symbol |-> ToUpperCase(symbol), condition |-> body.condition,
   targetSet |-> body.hasTarget, targetPrice |-> body.targetPrice,
   percentSet |-> body.hasPercent, percentageChange |-> body.percentageChange]
\* alertSchema: required of targetPrice and percentageChange, by condition
SchemaAccepts(doc) ==
  /\ doc.condition \in ApiConditions
  /\ doc.condition \in {"above", "below"} => doc.targetSet
  /\ doc.condition \in {"percent_increase", "percent_decrease"} => doc.percentSet

\* findOneAndUpdate(query, updateData, { new: true, runValidators: true }): the
\* document after $set of the fields of the body
ApplyUpdate(doc, body) ==
  [doc EXCEPT
     !.condition = IF body.hasCondition THEN body.condition ELSE @,
     !.targetSet = body.hasTarget \/ @,
     !.targetPrice = IF body.hasTarget THEN body.targetPrice ELSE @,
     !.percentSet = body.hasPercent \/ @,
     !.percentageChange = IF body.hasPercent THEN body.percentageChange ELSE @,
     !.isActive = IF body.hasActive THEN body.isActive ELSE @]

\* the query { _id: alertId, userId } of updateAlert and deleteAlert matches
MatchesAnyOwner(r, u) == rules[r].exists
Matches(r, u) == rules[r].exists /\ rules[r].userId = u

\* POST /alerts: AlertController.createAlert, AlertService.createAlert
ApiCreateAlert(u, symbol, body) ==
  /\ Authenticated(u)
  /\ validateAlert(body)
  /\ SchemaAccepts(NewAlert(u, symbol, body))
  /\ \E r \in RuleIds :
       /\ ~rules[r].exists
       /\ \A q \in RuleIds : q < r => rules[q].exists
       /\ rules' = [rules EXCEPT ![r] = NewAlert(u, symbol, body)]
       /\ firedAtDelete' = [firedAtDelete EXCEPT ![r] = NotDeleted]
       /\ apiOp' = ApiOp("create", u, r, 201)
  /\ UNCHANGED <<now, socketVars, cacheVars, cacheOp, clientVars, pc, call, ret, users,
                 schedVars>>

\* PUT /alerts/:id: AlertController.updateAlert, AlertService.updateAlert
ApiUpdateAlert(u, r, body) ==
  /\ Authenticated(u)
  /\ validateUpdateAlert(body)
  /\ IF Matches(r, u)
       THEN /\ rules' = [rules EXCEPT ![r] = ApplyUpdate(rules[r], body)]
            /\ apiOp' = ApiOp("update", u, r, 200)
       ELSE /\ apiOp' = ApiOp("update", u, r, 404)
            /\ UNCHANGED rules
  /\ UNCHANGED <<now, socketVars, cacheVars, cacheOp, clientVars, pc, call, ret, users,
                 schedVars, firedAtDelete>>

\* DELETE /alerts/:id: AlertController.deleteAlert, AlertService.deleteAlert
ApiDeleteAlert(u, r) ==
  /\ Authenticated(u)
  /\ IF Matches(r, u)
       THEN /\ rules' = [rules EXCEPT ![r] = NoRule]
            /\ firedAtDelete' = [firedAtDelete EXCEPT ![r] = fired[r]]
            /\ apiOp' = ApiOp("delete", u, r, 200)
       ELSE /\ apiOp' = ApiOp("delete", u, r, 404)
            /\ UNCHANGED <<rules, firedAtDelete>>
  /\ UNCHANGED <<now, socketVars, cacheVars, cacheOp, clientVars, pc, call, ret, users,
                 schedVars>>

\* PUT /auth/profile with preferences: { emailNotifications }
ApiUpdateProfile(u, emailNotifications) ==
  /\ u \in UserIds
  /\ users[u].exists
  /\ users' = [users EXCEPT ![u].emailNotifications = emailNotifications]
  /\ apiOp' = ApiOp("profile", u, 0, 200)
  /\ UNCHANGED <<now, socketVars, cacheVars, cacheOp, clientVars, pc, call, ret, rules,
                 schedVars, firedAtDelete>>

\* ------------------------------------------------------------- cron jobs

\* catch (error) { logger.error('Error in ... cron job:', error) }
CallbackRethrows == [cron EXCEPT !.alive = FALSE]
CallbackCatch == cron

\* cron.schedule('*/10 * * * * *', ...): the price job fires and calls
\* getCurrentPrices()
PriceTick(p, failGet, failDel) ==
  /\ p \in TickProcs
  /\ cron.alive
  /\ cron.ticks < MaxTicks
  /\ now % CronPeriod = 0
  /\ cron.priceAt # now
  /\ pc[p] = "idle"
  /\ p = "tick1" \/ pc["tick1"] # "idle"
  /\ BeginFetch(p, supportedCoins, failGet, failDel)
  /\ cron' = [cron EXCEPT !.priceAt = now, !.ticks = cron.ticks + 1]
  /\ UNCHANGED <<now, socketVars, isConnected, cacheOp, storeVars, apiVars, tk, fired, mailed,
                 emitted, history, caught>>

\* await coinGeckoService.getCurrentPrices() rejects: control goes to the catch
\* of the callback
NeverRaises(r) == FALSE
Raises(r) == r.kind = "throw"

\* getCurrentPrices has returned or thrown: broadcast, then checkAlerts up to
\* await Alert.find
AfterFetch(p, emitFails) ==
  /\ p \in TickProcs
  /\ pc[p] = "returned"
  /\ IF Raises(ret[p]) \/ emitFails
       THEN /\ cron' = CallbackCatch
            /\ caught' = caught + 1
            /\ pc' = [pc EXCEPT ![p] = "idle"]
            /\ call' = [call EXCEPT ![p] = NoCall]
            /\ ret' = [ret EXCEPT ![p] = NoRet]
            /\ UNCHANGED <<emitted, inbox>>
       ELSE /\ broadcastPriceUpdate(ret[p].data)
            /\ pc' = [pc EXCEPT ![p] = "findAlerts"]
            /\ call' = [call EXCEPT ![p] = NoCall]
            /\ UNCHANGED <<cron, caught, ret>>
  /\ UNCHANGED <<now, connectedClients, sockets, cacheVars, cacheOp, clientVars,
                 storeVars, apiVars, tk, fired, mailed, history>>

\* App.storePriceHistory: await PriceHistory.insertMany(historyRecords)
StoreHistory(p, fail) ==
  /\ pc[p] = "storeHistory"
  /\ history' = IF fail THEN history ELSE history + 1
  /\ pc' = [pc EXCEPT ![p] = "idle"]
  /\ call' = [call EXCEPT ![p] = NoCall]
  /\ ret' = [ret EXCEPT ![p] = NoRet]
  /\ UNCHANGED <<now, socketVars, cacheVars, cacheOp, clientVars, storeVars, apiVars,
                 tk, cron, fired, mailed, emitted, caught>>

\* cron.schedule('0 0 * * *', ...): PriceHistory.deleteMany resolves or rejects
CleanupTick(fail) ==
  /\ cron.alive
  /\ now % DayMs = 0
  /\ cron.cleanupAt # now
  /\ cron' = [(IF fail THEN CallbackCatch ELSE cron) EXCEPT !.cleanupAt = now]
  /\ caught' = IF fail THEN caught + 1 ELSE caught
  /\ UNCHANGED <<now, socketVars, cacheVars, cacheOp, clientVars, pc, call, ret,
                 storeVars, apiVars, tk, fired, mailed, emitted, history>>

\* ------------------------------------------------------------------ time

Sleeping(p) == pc[p] \in {"pacing", "retryWait"}
\* the clock of a run stops here
MaxTime == StartTime + MaxElapsed * TimeStep + MinuteMs + TimeStep
\* instants at which a timer is due or a cache entry reaches / passes its ttl
Deadlines ==
  {call[p].wakeAt : p \in {q \in Procs : Sleeping(q)}}
  \cup {redis[k].timestamp + redis[k].ttl : k \in {j \in AllKeys : redis[j].present}}
  \cup {redis[k].timestamp + redis[k].ttl + TimeStep :
          k \in {j \in AllKeys : redis[j].present}}

AdvanceTime ==
  /\ \E t \in {d \in Deadlines : d > now /\ d <= MaxTime}
             \cup {u \in {now + TimeStep} : u <= StartTime + MaxElapsed * TimeStep} :
       now' = t
  /\ UNCHANGED <<cacheVars, cacheOp, clientVars, pc, call, ret, storeVars, apiVars,
                 schedVars, socketVars>>

\* a cron job is due at this instant and has not been started yet
PriceDue == cron.alive /\ cron.ticks < MaxTicks /\ now % CronPeriod = 0 /\ cron.priceAt # now
CleanupDue == cron.alive /\ now % DayMs = 0 /\ cron.cleanupAt # now
NextCronInstant == (now \div CronPeriod + 1) * CronPeriod
\* the clock of the scheduler: it reaches the next timer that is due, a sleeping
\* request's or the price job's; the jobs that are due start before it moves on
SchedulerTime ==
  /\ ~PriceDue
  /\ ~CleanupDue
  /\ \E t \in {call[p].wakeAt : p \in {q \in TickProcs : Sleeping(q)}}
             \cup {u \in {NextCronInstant} : cron.alive /\ cron.ticks < MaxTicks} :
       /\ t > now
       /\ cron.alive /\ cron.ticks < MaxTicks => t <= NextCronInstant
       /\ now' = t
  /\ UNCHANGED <<cacheVars, cacheOp, clientVars, pc, call, ret, storeVars, apiVars,
                 schedVars, socketVars>>

\* ------------------------------------------------- the client and its cache

vars == <<now, redis, isConnected, cacheOp, lastRequestTime, requestCount,
          prevRequestTime, pc, call, ret, rules, users, tk, cron, fired, mailed, emitted,
          history, caught, connectedClients, sockets, inbox, apiOp, firedAtDelete>>

InitWith(initialRules, initialUsers) ==
  /\ now = StartTime
  /\ redis = [k \in AllKeys |-> NoEntry]
  /\ isConnected = TRUE
  /\ cacheOp = NoOp
  /\ lastRequestTime = 0
  /\ requestCount = 0
  /\ prevRequestTime = 0
  /\ pc = [p \in Procs |-> "idle"]
  /\ call = [p \in Procs |-> NoCall]
  /\ ret = [p \in Procs |-> NoRet]
  /\ rules = initialRules
  /\ users \in initialUsers
  /\ tk = [p \in TickProcs |-> NoTick]
  /\ cron = [alive |-> TRUE, priceAt |-> 0, cleanupAt |-> 0, ticks |-> 0]
  /\ fired = [r \in RuleIds |-> 0]
  /\ mailed = [r \in RuleIds |-> 0]
  /\ emitted = 0
  /\ history = 0
  /\ caught = 0
  /\ connectedClients = [id \in SocketIds |-> NoClient]
  /\ sockets = [id \in SocketIds |-> NoSocket]
  /\ inbox = [id \in SocketIds |-> {}]
  /\ apiOp = ApiOp("none", "", 0, 0)
  /\ firedAtDelete = [r \in RuleIds |-> NotDeleted]

InitOf(initialRules) == InitWith(initialRules, InitialUsers)
Init == InitOf(InitialRules)

\* the cache under its direct consumers
NextCache ==
  \/ AdvanceTime
  \/ RedisError
  \/ RedisConnect
  \/ \E k \in Keys, m \in Markets, t \in TtlArgs, f \in BOOLEAN : CacheSet(k, m, t, f)
  \/ \E k \in Keys, f \in BOOLEAN, g \in BOOLEAN : CacheGet(k, f, g)
  \/ \E k \in Keys, f \in BOOLEAN : CacheDelete(k, f)
  \/ \E k \in Keys, f \in BOOLEAN : CacheExists(k, f)

SpecCache == Init /\ [][NextCache]_vars

\* one API caller of the upstream client, with the cache's other consumers
FetchProcs == {"api1"}
SpecFetch ==
  /\ Init
  /\ [][\/ NextCache
        \/ \E p \in FetchProcs, l \in CoinLists, f \in BOOLEAN, g \in BOOLEAN :
             ApiGetCurrentPrices(p, l, f, g)
        \/ \E p \in FetchProcs : ApiRespond(p)
        \/ \E p \in FetchProcs : PacingWake(p)
        \/ \E p \in FetchProcs, m \in Markets, f \in BOOLEAN : UpstreamOk(p, m, f)
        \/ \E p \in FetchProcs, h \in RetryAfterHeaders : UpstreamRateLimited(p, h)
        \/ \E p \in FetchProcs : RetryWake(p)
        \/ \E p \in FetchProcs, f \in BOOLEAN, g \in BOOLEAN : UpstreamError(p, f, g)]_vars

\* one API caller of the prices of one coin and of its history
SpecSingle ==
  /\ Init
  /\ [][\/ AdvanceTime
        \/ \E p \in FetchProcs, method \in Methods, c \in CoinIds, f \in BOOLEAN, g \in BOOLEAN :
             ApiGetSingle(p, method, c, f, g)
        \/ \E p \in FetchProcs : ApiRespond(p)
        \/ \E p \in FetchProcs : PacingWake(p)
        \/ \E p \in FetchProcs, m \in Markets \cup {NoData}, f \in BOOLEAN : SingleOk(p, m, f)
        \/ \E p \in FetchProcs, h \in RetryAfterHeaders : UpstreamRateLimited(p, h)
        \/ \E p \in FetchProcs : RetryWake(p)
        \/ \E p \in FetchProcs : SingleError(p)]_vars

\* concurrent API callers of the upstream client, while the cache stays connected
\* and the upstream is within its rate limit
SpecPacing ==
  /\ Init
  /\ [][\/ AdvanceTime
        \/ \E p \in ApiProcs, l \in CoinLists, f \in BOOLEAN, g \in BOOLEAN :
             ApiGetCurrentPrices(p, l, f, g)
        \/ \E p \in ApiProcs : ApiRespond(p)
        \/ \E p \in ApiProcs : PacingWake(p)
        \/ \E p \in ApiProcs, m \in Markets, f \in BOOLEAN : UpstreamOk(p, m, f)
        \/ \E p \in ApiProcs, f \in BOOLEAN, g \in BOOLEAN : UpstreamError(p, f, g)]_vars

\* the scheduler: the two cron jobs and the alert service, price ticks
\* overlapping when one outlasts the cron period, every call may fail
Next ==
  \/ SchedulerTime
  \/ \E p \in TickProcs, f \in BOOLEAN, g \in BOOLEAN : PriceTick(p, f, g)
  \/ \E p \in TickProcs : PacingWake(p)
  \/ \E p \in TickProcs, m \in Markets, f \in BOOLEAN : UpstreamOk(p, m, f)
  \/ \E p \in TickProcs, h \in RetryAfterHeaders : UpstreamRateLimited(p, h)
  \/ \E p \in TickProcs : RetryWake(p)
  \/ \E p \in TickProcs, f \in BOOLEAN, g \in BOOLEAN : UpstreamError(p, f, g)
  \/ \E p \in TickProcs, f \in BOOLEAN : AfterFetch(p, f)
  \/ \E p \in TickProcs, f \in BOOLEAN : FindAlerts(p, f)
  \/ \E p \in TickProcs, f \in BOOLEAN : FindUser(p, f)
  \/ \E p \in TickProcs, f \in BOOLEAN : SendEmail(p, f)
  \/ \E p \in TickProcs, f \in BOOLEAN : Deactivate(p, f)
  \/ \E p \in TickProcs, f \in BOOLEAN : StoreHistory(p, f)
  \/ \E f \in BOOLEAN : CleanupTick(f)

Spec == Init /\ [][Next]_vars

\* the scheduler while MongoDB and the socket server answer every call and each
\* price tick ends before the next one is due; the mail transport may fail
SpecSerial ==
  /\ Init
  /\ [][\/ SchedulerTime
        \/ \E p \in TickProcs, f \in BOOLEAN, g \in BOOLEAN : Quiet /\ PriceTick(p, f, g)
        \/ \E p \in TickProcs : PacingWake(p)
        \/ \E p \in TickProcs, m \in Markets, f \in BOOLEAN : UpstreamOk(p, m, f)
        \/ \E p \in TickProcs, h \in RetryAfterHeaders : UpstreamRateLimited(p, h)
        \/ \E p \in TickProcs : RetryWake(p)
        \/ \E p \in TickProcs, f \in BOOLEAN, g \in BOOLEAN : UpstreamError(p, f, g)
        \/ \E p \in TickProcs : AfterFetch(p, FALSE)
        \/ \E p \in TickProcs : FindAlerts(p, FALSE)
        \/ \E p \in TickProcs : FindUser(p, FALSE)
        \/ \E p \in TickProcs, f \in BOOLEAN : SendEmail(p, f)
        \/ \E p \in TickProcs : Deactivate(p, FALSE)
        \/ \E p \in TickProcs : StoreHistory(p, FALSE)
        \/ CleanupTick(FALSE)]_vars

\* the scheduler while each price tick ends before the next one is due; every
\* call a tick makes may fail
SpecTicks ==
  /\ Init
  /\ [][\/ SchedulerTime
        \/ \E p \in TickProcs, f \in BOOLEAN, g \in BOOLEAN : Quiet /\ PriceTick(p, f, g)
        \/ \E p \in TickProcs : PacingWake(p)
        \/ \E p \in TickProcs, m \in Markets, f \in BOOLEAN : UpstreamOk(p, m, f)
        \/ \E p \in TickProcs, h \in RetryAfterHeaders : UpstreamRateLimited(p, h)
        \/ \E p \in TickProcs : RetryWake(p)
        \/ \E p \in TickProcs, f \in BOOLEAN, g \in BOOLEAN : UpstreamError(p, f, g)
        \/ \E p \in TickProcs, f \in BOOLEAN : AfterFetch(p, f)
        \/ \E p \in TickProcs, f \in BOOLEAN : FindAlerts(p, f)
        \/ \E p \in TickProcs, f \in BOOLEAN : FindUser(p, f)
        \/ \E p \in TickProcs, f \in BOOLEAN : SendEmail(p, f)
        \/ \E p \in TickProcs, f \in BOOLEAN : Deactivate(p, f)
        \/ \E p \in TickProcs, f \in BOOLEAN : StoreHistory(p, f)
        \/ \E f \in BOOLEAN : CleanupTick(f)]_vars

\* the scheduler while MongoDB, the socket server and the mail transport answer
\* every call; price ticks overlap when one outlasts the cron period
SpecOverlap ==
  /\ Init
  /\ [][\/ SchedulerTime
        \/ \E p \in TickProcs, f \in BOOLEAN, g \in BOOLEAN : PriceTick(p, f, g)
        \/ \E p \in TickProcs : PacingWake(p)
        \/ \E p \in TickProcs, m \in Markets, f \in BOOLEAN : UpstreamOk(p, m, f)
        \/ \E p \in TickProcs, h \in RetryAfterHeaders : UpstreamRateLimited(p, h)
        \/ \E p \in TickProcs : RetryWake(p)
        \/ \E p \in TickProcs, f \in BOOLEAN, g \in BOOLEAN : UpstreamError(p, f, g)
        \/ \E p \in TickProcs : AfterFetch(p, FALSE)
        \/ \E p \in TickProcs : FindAlerts(p, FALSE)
        \/ \E p \in TickProcs : FindUser(p, FALSE)
        \/ \E p \in TickProcs : SendEmail(p, FALSE)
        \/ \E p \in TickProcs : Deactivate(p, FALSE)
        \/ \E p \in TickProcs : StoreHistory(p, FALSE)
        \/ CleanupTick(FALSE)]_vars

\* the price ticks while the upstream, the cache, MongoDB, the socket server and
\* the mail transport answer every call and each tick ends before the next is due
NextAnswered ==
  \/ SchedulerTime
  \/ \E p \in TickProcs : Quiet /\ PriceTick(p, FALSE, FALSE)
  \/ \E p \in TickProcs, m \in Markets : UpstreamOk(p, m, FALSE)
  \/ \E p \in TickProcs : AfterFetch(p, FALSE)
  \/ \E p \in TickProcs : FindAlerts(p, FALSE)
  \/ \E p \in TickProcs : FindUser(p, FALSE)
  \/ \E p \in TickProcs : SendEmail(p, FALSE)
  \/ \E p \in TickProcs : Deactivate(p, FALSE)
  \/ \E p \in TickProcs : StoreHistory(p, FALSE)
  \/ CleanupTick(FALSE)

\* the documents rule 1 is drawn from: every condition, one that the schema does
\* not know, each threshold unset or at and around the quoted values, a symbol
\* that is quoted and one that is not
Conditions == {"above", "below", "percent_increase", "percent_decrease", "sideways"}
RuleSymbols == {"BTC", "ETH", "DOGE"}
TargetInputs == {[set |-> FALSE, value |-> 0], [set |-> TRUE, value |-> 60000],
                 [set |-> TRUE, value |-> 61000]}
PercentInputs == {[set |-> FALSE, value |-> 0], [set |-> TRUE, value |-> 5],
                  [set |-> TRUE, value |-> 6]}
RuleInputs ==
  {Rule("u1", sym, cond, t.set, t.value, q.set, q.value) :
     sym \in RuleSymbols, cond \in Conditions, t \in TargetInputs, q \in PercentInputs}

\* evaluateAlert and checkAlerts over the drawn documents
SpecEval ==
  /\ \E doc \in RuleInputs : InitOf([InitialRules EXCEPT ![1] = doc])
  /\ [][NextAnswered]_vars

\* the user of the rules has email notifications on
InitSockets == Init /\ \A u \in UserIds : users[u].emailNotifications

\* the socket server with its clients, beside the price ticks
SpecSockets ==
  /\ InitSockets
  /\ [][\/ NextAnswered
        \/ \E id \in SocketIds : Connection(id)
        \/ \E id \in SocketIds : Disconnect(id)
        \/ \E id \in SocketIds, symbol \in SubscribeSymbols : Subscribe(id, symbol)
        \/ \E id \in SocketIds, symbol \in SubscribeSymbols : Unsubscribe(id, symbol)]_vars

\* a body that sets isActive and nothing else
SetActive(a) == Body(FALSE, "", FALSE, 0, FALSE, 0, TRUE, a)

\* the price ticks, each ending before the next is due, while users switch
\* their rules off and on
SpecEdits ==
  /\ Init
  /\ [][\/ NextAnswered
        \/ \E u \in ApiUsers, r \in RuleIds, a \in BOOLEAN : ApiUpdateAlert(u, r, SetActive(a))]_vars

\* the price ticks while every call is answered, overlapping when one outlasts
\* the cron period, and users that delete rules
SpecRace ==
  /\ Init
  /\ [][\/ SchedulerTime
        \/ \E p \in TickProcs : PriceTick(p, FALSE, FALSE)
        \/ \E p \in TickProcs, m \in Markets : UpstreamOk(p, m, FALSE)
        \/ \E p \in TickProcs : AfterFetch(p, FALSE)
        \/ \E p \in TickProcs : FindAlerts(p, FALSE)
        \/ \E p \in TickProcs : FindUser(p, FALSE)
        \/ \E p \in TickProcs : SendEmail(p, FALSE)
        \/ \E p \in TickProcs : Deactivate(p, FALSE)
        \/ \E p \in TickProcs : StoreHistory(p, FALSE)
        \/ CleanupTick(FALSE)
        \/ \E u \in ApiUsers, r \in RuleIds : ApiDeleteAlert(u, r)]_vars

\* the alert API under its users
SpecRules ==
  /\ Init
  /\ [][\/ \E u \in ApiUsers, body \in Bodies : ApiCreateAlert(u, "btc", body)
        \/ \E u \in ApiUsers, r \in RuleIds, body \in Bodies : ApiUpdateAlert(u, r, body)
        \/ \E u \in ApiUsers, r \in RuleIds : ApiDeleteAlert(u, r)]_vars

\* the price ticks, each ending before the next is due, while users switch
\* their email notifications off and on; the record of the rules' owner is in
\* the User collection or gone from it
SpecNotify ==
  /\ InitWith(InitialRules, InitialUsers \cup {[u \in UserIds |-> NoUser]})
  /\ [][\/ NextAnswered
        \/ \E u \in UserIds, e \in BOOLEAN : ApiUpdateProfile(u, e)]_vars

\* one API caller of GET /prices with its coins query, while the cache and the
\* upstream answer
SpecKeys ==
  /\ Init
  /\ [][\/ AdvanceTime
        \/ \E p \in FetchProcs, l \in RequestLists : ApiGetCurrentPrices(p, l, FALSE, FALSE)
        \/ \E p \in FetchProcs : ApiRespond(p)
        \/ \E p \in FetchProcs : PacingWake(p)
        \/ \E p \in FetchProcs, m \in Markets : UpstreamOk(p, m, FALSE)]_vars

\* the price ticks, each ending before the next is due, while the two users
\* switch and delete rules, their own and each other's; rule 2 is owned by the
\* second user
SpecOwners ==
  /\ InitOf([InitialRules EXCEPT ![2].userId = "u2"])
  /\ [][\/ NextAnswered
        \/ \E u \in ApiUsers, r \in RuleIds, a \in BOOLEAN : ApiUpdateAlert(u, r, SetActive(a))
        \/ \E u \in ApiUsers, r \in RuleIds : ApiDeleteAlert(u, r)]_vars

\* ---------------------------------------------------------------- claims

\* the rule whose trigger path tick p is in
Triggering(p) == tk[p].alerts[tk[p].idx].id
InTriggerPath(p) == pc[p] \in {"findUser", "sendEmail", "deactivate"}

\* C1 (SpecSerial): one-shot firing.  Once a tick has emitted the trigger
\* event of a rule and has ended, the rule is inactive in the store, and no rule
\* gets a second trigger event from a later tick.
OneShotFiring ==
  \A r \in RuleIds :
    /\ fired[r] <= 1
    /\ fired[r] >= 1 /\ Quiet => ~rules[r].isActive

\* C2 (SpecOverlap): at most one trigger event per activation, for every
\* interleaving of price ticks.  No rule is activated a second time in a run, so
\* each rule has at most one trigger event, also while two ticks overlap.
AtMostOncePerActivation ==
  \A r \in RuleIds :
    /\ fired[r] <= 1
    /\ \A p \in TickProcs, q \in TickProcs :
         (p # q /\ InTriggerPath(p) /\ InTriggerPath(q)) => Triggering(p) # Triggering(q)

\* C3 (SpecSerial): a failing email dispatch does not prevent the deactivation.
\* Whenever the trigger path of a rule ends at the email step, the rule is
\* inactive in the store.
EmailFailureStillDeactivates ==
  [][\A p \in TickProcs :
       (pc[p] = "sendEmail" /\ pc'[p] \notin {"sendEmail", "deactivate"})
         => ~rules'[Triggering(p)].isActive]_vars

\* C4 (SpecTicks): tick isolation.  Whatever has failed in price ticks and cleanup
\* ticks, the cron jobs stay scheduled, and a price tick that is due after a
\* failed one starts.
TickIsolation ==
  /\ cron.alive
  /\ (/\ caught > 0
      /\ cron.ticks < MaxTicks
      /\ now % CronPeriod = 0
      /\ cron.priceAt # now
      /\ pc["tick1"] = "idle"
      /\ requestCount < MaxRequests)
       => ENABLED PriceTick("tick1", FALSE, FALSE)

\* C4 witness: the first price tick failed and was caught, and the second one
\* has started on schedule and sent its request
TickAfterFailedTick ==
  /\ caught >= 1
  /\ cron.cleanupAt = 0
  /\ cron.ticks = 2
  /\ cron.priceAt = now
  /\ pc["tick1"] = "inflight"
  /\ pc["tick2"] = "idle"
  /\ lastRequestTime = now
  /\ call["tick1"].attempts = 1

\* C5 (SpecFetch): bounded rate-limit retry.  One getCurrentPrices call sends
\* its request at most twice: once, and once more after a 429.
BoundedRetry == \A p \in Procs : call[p].attempts <= 2

\* C6 (SpecFetch): stale fallback.  If the cache held an entry older than its
\* ttl for the list when the call began and the upstream request failed, the
\* call returns that entry's payload.
StaleFallback ==
  \A p \in Procs :
    (pc[p] = "returned" /\ ret[p].upstream = "failed" /\ call[p].heldStale # NoData)
      => ret[p].kind = "ok" /\ ret[p].data = call[p].heldStale

\* C7 (SpecFetch): a cache hit means no network call.  A call that began while
\* the cache held, and answered the read with, an entry younger than its ttl
\* has returned that entry's payload from the cache and has sent no request.
CacheHitNoRequest ==
  \A p \in Procs :
    (pc[p] # "idle" /\ call[p].readable /\ call[p].heldFresh # NoData)
      => /\ pc[p] = "returned"
         /\ ret[p].kind = "ok"
         /\ ret[p].via = "cache"
         /\ ret[p].data = call[p].heldFresh
         /\ ret[p].upstream = "none"
         /\ call[p].attempts = 0

\* C7 witness: after a request was sent and its answer cached, a later call is
\* answered from the cache
CacheHitServed ==
  /\ requestCount >= 1
  /\ pc["api1"] = "returned"
  /\ ret["api1"].via = "cache"
  /\ call["api1"].heldFresh # NoData
  /\ call["api1"].attempts = 0

\* what Redis answers for key k, and the age of that entry
Age(e) == now - e.timestamp

\* C8 (SpecCache), as the code has it: get on a reachable cache returns the
\* stored value if and only if the entry's age is at most its ttl; an entry
\* older than its ttl is reported absent, and the read deletes it from the store
\* when its delete call succeeds.
CacheFreshness ==
  [][\A k \in Keys, f \in BOOLEAN, g \in BOOLEAN :
       (CacheGet(k, f, g) /\ isConnected /\ ~f) =>
         LET e == ClientGet(k) IN
         /\ cacheOp'.value # NoData <=> (e.present /\ Age(e) <= e.ttl)
         /\ cacheOp'.value # NoData => cacheOp'.value = e.data /\ redis' = redis
         /\ (e.present /\ Age(e) > e.ttl /\ ~g) => ~redis'[k].present]_vars

\* C8 as stated: get returns the stored value if and only if the entry's age is
\* less than its ttl; an entry whose age equals or exceeds its ttl is reported
\* absent and the read deletes it.
CacheFreshnessStrict ==
  [][\A k \in Keys, f \in BOOLEAN, g \in BOOLEAN :
       (CacheGet(k, f, g) /\ isConnected /\ ~f) =>
         LET e == ClientGet(k) IN
         /\ cacheOp'.value # NoData <=> (e.present /\ Age(e) < e.ttl)
         /\ (e.present /\ Age(e) >= e.ttl) => ~redis'[k].present]_vars

\* C8 witness: a get has just returned the value of an entry whose age equals
\* its ttl
FreshAtTtlBoundary ==
  /\ cacheOp.op = "get"
  /\ cacheOp.value # NoData
  /\ redis[cacheOp.key].present
  /\ Age(redis[cacheOp.key]) = redis[cacheOp.key].ttl

\* C9 (SpecFetch): cache fail-soft.  No cache call raises; a call made while
\* the service is disconnected, or whose Redis call fails, leaves the store as
\* it is, returns absent (get) and returns false (exists); and a
\* getCurrentPrices call whose cache read is such a call goes on to the
\* upstream request.
CacheFailSoft ==
  /\ ~cacheOp.raised
  /\ cacheOp.down => ~cacheOp.changed /\ cacheOp.value = NoData /\ ~cacheOp.found
  /\ \A p \in Procs :
       (pc[p] # "idle" /\ ~call[p].readable)
         => \/ pc[p] \in {"pacing", "inflight", "retryWait"}
            \/ pc[p] = "returned" /\ ret[p].upstream # "none"

\* C9 witness: a call that found the cache unavailable, though Redis holds a
\* fresh entry for its list, has sent the upstream request
MissOnUnavailableCache ==
  /\ pc["api1"] = "inflight"
  /\ ~call["api1"].readable
  /\ call["api1"].heldFresh # NoData
  /\ call["api1"].attempts = 1

\* C10 (SpecPacing): request pacing.  Any two requests sent one after the other
\* are at least the minimum interval apart.
RequestPacing ==
  requestCount >= 2 => lastRequestTime - prevRequestTime >= REQUEST_INTERVAL

\* what get can read: for each key, the entry Redis answers with
CacheView == [k \in AllKeys |-> ClientGet(k)]
FetchPhase == {"idle", "pacing", "inflight", "retryWait", "returned"}

\* C11 (SpecTicks): upstream unavailable.  When the upstream request of a tick
\* fails and the fallback read finds nothing, getCurrentPrices raises and the
\* cache reads as before; the tick then ends in the catch of its callback; and
\* up to there it has broadcast nothing, evaluated no alert and stored no
\* history, and the rule store is as it was.
UpstreamUnavailable ==
  [][\A p \in TickProcs :
       /\ (pc[p] = "inflight" /\ pc'[p] = "returned" /\ ret'[p].upstream = "failed"
                               /\ ret'[p].data = NoData)
            => Raises(ret'[p]) /\ CacheView' = CacheView
       /\ (pc[p] = "returned" /\ ret[p].kind = "throw" /\ pc'[p] # "returned")
            => /\ pc'[p] = "idle"
               /\ caught' = caught + 1
               /\ tk'[p] = NoTick
               /\ UNCHANGED <<rules, redis, fired, emitted, history>>
       /\ (pc[p] \in FetchPhase /\ pc'[p] \in FetchPhase /\ pc'[p] # pc[p])
            => UNCHANGED <<rules, fired, emitted, history>>]_vars

\* C11 witness: getCurrentPrices has raised to a tick after its upstream request
\* failed
FetchRaisedToTick ==
  \E p \in TickProcs :
    /\ pc[p] = "returned"
    /\ ret[p].kind = "throw"
    /\ ret[p].upstream = "failed"
    /\ call[p].attempts >= 1

\* C12 (SpecOverlap): suspended fetches end.  A tick whose fetch is suspended
\* in a retry-after wait has been answered 429 once: the request it sends when
\* the wait is over is its last, and the outcome of that request ends the fetch,
\* so that no tick waits a second time.
SuspendedFetchEnds ==
  \A p \in TickProcs : pc[p] = "retryWait" => call[p].attempts <= 1

\* the snapshots a tick passes to checkAlerts
PriceData(p) == Snapshot(ret[p].data)
\* the tick is about to have its alerts evaluated against its snapshots
Evaluating(p) == pc[p] = "findAlerts"
\* the snapshot the alert of the trigger path of tick p was evaluated against
Matched(p) == PriceData(p)[FindPrice(PriceData(p), tk[p].alerts[tk[p].idx].doc)]

\* what C13 asks of a rule with its threshold set, on one snapshot
Expected(alert, priceData) ==
  \/ alert.condition = "above" /\ priceData.current_price > alert.targetPrice
  \/ alert.condition = "below" /\ priceData.current_price < alert.targetPrice
  \/ /\ alert.condition = "percent_increase"
     /\ priceData.price_change_percentage_24h >= alert.percentageChange
  \/ /\ alert.condition = "percent_decrease"
     /\ priceData.price_change_percentage_24h <= 0 - alert.percentageChange
\* the threshold that the condition of the rule needs is set
ThresholdSet(alert) ==
  \/ alert.condition \in {"above", "below"} /\ alert.targetSet
  \/ alert.condition \in {"percent_increase", "percent_decrease"} /\ alert.percentSet

\* C13 (SpecEval): evaluation semantics.  For a rule whose threshold is set,
\* evaluateAlert is true exactly when: above and price > target; below and
\* price < target; percent_increase and change >= percentage; percent_decrease
\* and change <= -percentage.  The price comparisons are strict, the percentage
\* comparisons are not; and a rule enters the trigger path only on a snapshot
\* on which this holds.
EvaluationSemantics ==
  \A p \in TickProcs :
    /\ Evaluating(p) =>
         \A r \in RuleIds, i \in 1..Len(PriceData(p)) :
           ThresholdSet(rules[r]) =>
             (evaluateAlert(rules[r], PriceData(p)[i]) <=> Expected(rules[r], PriceData(p)[i]))
    /\ (InTriggerPath(p) /\ ThresholdSet(tk[p].alerts[tk[p].idx].doc)) =>
         Expected(tk[p].alerts[tk[p].idx].doc, Matched(p))

\* C13 witness: a percent_increase rule is in the trigger path on a change equal
\* to its percentage
TriggeredAtEquality ==
  \E p \in TickProcs :
    /\ pc[p] = "findUser"
    /\ Triggering(p) = 1
    /\ rules[1].condition = "percent_increase"
    /\ Matched(p).price_change_percentage_24h = rules[1].percentageChange

\* C14 (SpecEval): defensive default.  A rule whose condition is unknown, or
\* whose condition needs a threshold that is unset, evaluates to false on every
\* snapshot, never enters the trigger path, has no trigger event and stays
\* active, and no exception reaches the cron callback.
DefensiveDefault ==
  /\ \A p \in TickProcs :
       /\ Evaluating(p) =>
            \A r \in RuleIds, i \in 1..Len(PriceData(p)) :
              ~ThresholdSet(rules[r]) => ~evaluateAlert(rules[r], PriceData(p)[i])
       /\ InTriggerPath(p) => ThresholdSet(tk[p].alerts[tk[p].idx].doc)
  /\ \A r \in RuleIds :
       ~ThresholdSet(rules[r]) => fired[r] = 0 /\ rules[r].isActive /\ caught = 0

\* C14 witness: a tick has evaluated a percent_increase rule without percentage
\* on a snapshot of its symbol whose change is positive, and has ended
EvaluatedWithoutThreshold ==
  /\ Quiet
  /\ emitted >= 1
  /\ redis[CacheKey(supportedCoins)].present
  /\ redis[CacheKey(supportedCoins)].data = "up"
  /\ rules[1].condition = "percent_increase"
  /\ ~rules[1].percentSet
  /\ rules[1].symbol = "BTC"
  /\ rules[1].isActive

\* the same symbol, whatever the case of its letters
FoldCase(symbol) ==
  CASE symbol \in {"btc", "BTC"} -> "btc"
    [] symbol \in {"eth", "ETH"} -> "eth"
    [] symbol \in {"doge", "DOGE"} -> "doge"
    [] OTHER -> symbol
SameSymbol(a, b) == FoldCase(a) = FoldCase(b)
Quoted(symbol) ==
  \E m \in Markets :
    \E i \in 1..Len(Snapshot(m)) : SameSymbol(Snapshot(m)[i].symbol, symbol)

\* C15 (SpecEval): symbol matching.  checkAlerts finds a snapshot for a rule
\* exactly when one has the rule's symbol ignoring case, and evaluates the rule
\* against that one; a rule whose symbol no snapshot has never enters the
\* trigger path, has no trigger event and stays active.
SymbolMatching ==
  /\ \A p \in TickProcs :
       /\ Evaluating(p) =>
            \A r \in RuleIds :
              /\ FindPrice(PriceData(p), rules[r]) # 0
                   <=> \E i \in 1..Len(PriceData(p)) :
                         SameSymbol(PriceData(p)[i].symbol, rules[r].symbol)
              /\ FindPrice(PriceData(p), rules[r]) # 0
                   => SameSymbol(PriceData(p)[FindPrice(PriceData(p), rules[r])].symbol,
                                 rules[r].symbol)
       /\ InTriggerPath(p) => SameSymbol(Matched(p).symbol, tk[p].alerts[tk[p].idx].doc.symbol)
  /\ \A r \in RuleIds : ~Quoted(rules[r].symbol) => fired[r] = 0 /\ rules[r].isActive

\* C15 witness: a rule is in the trigger path on a snapshot whose symbol differs
\* from its own in case
MatchedIgnoringCase ==
  \E p \in TickProcs :
    /\ pc[p] = "findUser"
    /\ Matched(p).symbol # tk[p].alerts[tk[p].idx].doc.symbol
    /\ Matched(p).symbol = "btc"
    /\ tk[p].alerts[tk[p].idx].doc.symbol = "BTC"

\* tick p is in checkAlerts or in triggerAlert
InAlertPath(p) == pc[p] \in {"findAlerts", "findUser", "sendEmail", "deactivate"}

\* C16 (SpecTicks): ordering within a tick.  A tick enters checkAlerts only from
\* the end of its fetch and in the step that broadcasts its snapshots; and no
\* step of a tick in checkAlerts or triggerAlert, failing or not, takes a
\* broadcast back or reaches the catch of the cron callback.
BroadcastBeforeAlerts ==
  [][\A p \in TickProcs :
       /\ (pc'[p] = "findAlerts" /\ pc[p] # "findAlerts")
            => pc[p] = "returned" /\ emitted' = emitted + 1
       /\ InAlertPath(p) => emitted' = emitted
       /\ (InAlertPath(p) /\ (pc'[p] # pc[p] \/ tk'[p] # tk[p])) => caught' = caught]_vars

\* C16 witness: the first tick has fetched and broadcast a market on which rule
\* 1 triggers, its alert path has failed before the trigger event, and it has
\* ended
BroadcastThenFailedAlerts ==
  /\ Quiet
  /\ cron.ticks = 1
  /\ emitted = 1
  /\ caught = 0
  /\ redis[CacheKey(supportedCoins)].present
  /\ redis[CacheKey(supportedCoins)].data = "up"
  /\ rules[1].isActive
  /\ fired[1] = 0

\* the tick that broadcasts in this step, and the one that sends an alert
Broadcasting(p) == pc[p] = "returned" /\ pc'[p] = "findAlerts"
Alerting(p) == pc[p] = "findUser" /\ fired'[Triggering(p)] = fired[Triggering(p)] + 1
Got(id, event) == {x \in inbox[id] : x.event = event}

\* C17 (SpecSockets): broadcast fan-out.  In the step that broadcasts the
\* snapshots of a tick, a socket receives the whole list exactly if it is
\* connected, whatever it is subscribed to, and receives the update of one
\* snapshot exactly if its entry holds the upper-cased symbol of the snapshot,
\* addressed to the room symbol:<UPPERCASE symbol>; it receives nothing else.
BroadcastFanOut ==
  [][\A p \in TickProcs : Broadcasting(p) =>
       \A id \in SocketIds :
         /\ Receipt("price-update", ToAll, ret[p].data, "", 0) \in inbox'[id]
              <=> sockets[id].connected
         /\ \A i \in 1..Len(PriceData(p)) :
              Receipt("symbol-price-update",
                      "symbol:" \o ToUpperCase(PriceData(p)[i].symbol), ret[p].data,
                      PriceData(p)[i].symbol, 0) \in inbox'[id]
                <=> ToUpperCase(PriceData(p)[i].symbol)
                      \in connectedClients[id].subscribedSymbols
         /\ \A x \in inbox'[id] :
              /\ x.event \in {"price-update", "symbol-price-update"}
              /\ x.market = ret[p].data
              /\ x.event = "symbol-price-update" =>
                   \E i \in 1..Len(PriceData(p)) : x.symbol = PriceData(p)[i].symbol]_vars

\* C17 witness: of two connected sockets one has received the update of btc and
\* the other, which is subscribed to nothing, the whole list only
SubscriberAndBystander ==
  \E a \in SocketIds, b \in SocketIds :
    /\ a # b
    /\ \E x \in Got(a, "symbol-price-update") : x.symbol = "btc"
    /\ sockets[b].connected
    /\ connectedClients[b].subscribedSymbols = {}
    /\ Got(b, "price-update") # {}
    /\ Got(b, "symbol-price-update") = {}

\* C18 (SpecSockets): alert fan-out.  In the step that sends the trigger event
\* of a rule, the event is emitted once, addressed to all: a socket receives it
\* exactly if it is connected, whether or not it is subscribed to the symbol of
\* the rule, and nothing is addressed to the room of that symbol.
AlertFanOut ==
  [][\A p \in TickProcs : Alerting(p) =>
       \A id \in SocketIds :
         /\ Receipt("alert-triggered", ToAll, ret[p].data,
                    rules[Triggering(p)].symbol, Triggering(p)) \in inbox'[id]
              <=> sockets[id].connected
         /\ \A x \in inbox'[id] \ inbox[id] :
              x.event = "alert-triggered" /\ x.via = ToAll /\ x.rule = Triggering(p)]_vars

\* C18 as first stated: the trigger event is also addressed to the room of the
\* symbol of the rule, so that a socket in that room receives it through the room
AlertToAllAndRoom ==
  [][\A p \in TickProcs : Alerting(p) =>
       \A id \in SocketIds :
         /\ sockets[id].connected =>
              \E x \in inbox'[id] :
                x.event = "alert-triggered" /\ x.rule = Triggering(p) /\ x.via = ToAll
         /\ id \in InRoom(Room(rules[Triggering(p)].symbol)) =>
              \E x \in inbox'[id] :
                /\ x.event = "alert-triggered"
                /\ x.rule = Triggering(p)
                /\ x.via = Room(rules[Triggering(p)].symbol)]_vars

\* C18 witness: a socket subscribed to BTC and a connected socket that is not
\* have both received the trigger event of rule 1, which is on BTC
AlertReachedBoth ==
  \E a \in SocketIds, b \in SocketIds :
    /\ a # b
    /\ "BTC" \in connectedClients[a].subscribedSymbols
    /\ sockets[b].connected
    /\ "BTC" \notin connectedClients[b].subscribedSymbols
    /\ \E x \in Got(a, "alert-triggered") : x.rule = 1 /\ x.symbol = "BTC"
    /\ \E x \in Got(b, "alert-triggered") : x.rule = 1 /\ x.symbol = "BTC"

\* subscribeToSymbol and unsubscribeFromSymbol applied to the state
Sub(st, id, symbol) == subscribeToSymbol(st.clients, st.sockets, id, symbol)
Unsub(st, id, symbol) == unsubscribeFromSymbol(st.clients, st.sockets, id, symbol)
Subscriptions == [clients |-> connectedClients, sockets |-> sockets]

\* C19 (SpecSockets): subscription idempotence.  From every state, subscribing
\* twice leaves what subscribing once leaves, unsubscribing twice what
\* unsubscribing once leaves; symbols that differ in case only leave the same
\* entries and rooms; and unsubscribing from a symbol that the entry does not
\* hold in any case changes nothing.
SubscriptionIdempotence ==
  \A id \in SocketIds, symbol \in SubscribeSymbols :
    /\ Sub(Sub(Subscriptions, id, symbol), id, symbol) = Sub(Subscriptions, id, symbol)
    /\ Unsub(Unsub(Subscriptions, id, symbol), id, symbol)
         = Unsub(Subscriptions, id, symbol)
    /\ \A other \in SubscribeSymbols :
         SameSymbol(symbol, other) =>
           /\ Sub(Subscriptions, id, symbol) = Sub(Subscriptions, id, other)
           /\ Unsub(Subscriptions, id, symbol) = Unsub(Subscriptions, id, other)
           /\ Unsub(Sub(Subscriptions, id, symbol), id, other)
                = Unsub(Subscriptions, id, symbol)
    /\ (\A held \in connectedClients[id].subscribedSymbols : ~SameSymbol(held, symbol))
         => Unsub(Subscriptions, id, symbol) = Subscriptions

\* C19 witness: a socket is subscribed to BTC, which it may ask for again as btc,
\* and not to ETH, from which it may unsubscribe
SubscribedToOne ==
  \E id \in SocketIds :
    /\ connectedClients[id].present
    /\ connectedClients[id].subscribedSymbols = {"BTC"}
    /\ sockets[id].rooms = {Room("btc")}

\* C20 (SpecSockets): subscriptions are scoped to the connection.  The entries
\* of connectedClients are those of the connected sockets; an id without entry
\* has no symbols and no rooms, and subscribing or unsubscribing it changes
\* nothing; a connection starts with an empty set; and a disconnect removes
\* the entry with its symbols.
ConnectionScoped ==
  /\ [](\A id \in SocketIds :
          /\ connectedClients[id].present <=> sockets[id].connected
          /\ ~connectedClients[id].present =>
               /\ connectedClients[id].subscribedSymbols = {}
               /\ sockets[id].rooms = {}
               /\ \A symbol \in SubscribeSymbols :
                    /\ Sub(Subscriptions, id, symbol) = Subscriptions
                    /\ Unsub(Subscriptions, id, symbol) = Subscriptions)
  /\ [][\A id \in SocketIds :
          /\ (~sockets[id].connected /\ sockets'[id].connected)
               => connectedClients'[id] = NewClient /\ sockets'[id].rooms = {}
          /\ (sockets[id].connected /\ ~sockets'[id].connected)
               => connectedClients'[id] = NoClient]_vars

\* C20 witness: a socket that received events has disconnected and has no entry,
\* while the other is connected and subscribed
GoneAndPresent ==
  \E a \in SocketIds, b \in SocketIds :
    /\ a # b
    /\ ~sockets[a].connected
    /\ inbox[a] # {}
    /\ ~connectedClients[a].present
    /\ connectedClients[b].present
    /\ connectedClients[b].subscribedSymbols # {}

\* C21 (SpecEdits): a tick evaluates the rules it read.  The rule that a tick
\* evaluates first is active in the store in the step that reads the list, and
\* every rule that a tick triggers was active in the document the tick read;
\* the flag in the store is not read again.
ActiveWhenRead ==
  [][\A p \in TickProcs :
       /\ (Evaluating(p) /\ pc'[p] = "findUser")
            => rules[tk'[p].alerts[tk'[p].idx].id].isActive
       /\ Alerting(p) => tk[p].alerts[tk[p].idx].doc.isActive]_vars

\* C21 as first stated: a rule is evaluated, and its trigger event sent, only
\* while it is active in the store
InactiveNeverEvaluated ==
  [][\A p \in TickProcs :
       /\ (pc'[p] = "findUser" /\ (pc[p] # "findUser" \/ tk'[p].idx # tk[p].idx))
            => rules[tk'[p].alerts[tk'[p].idx].id].isActive
       /\ Alerting(p) => rules[Triggering(p)].isActive]_vars

\* C21 witness: a tick is about to send the trigger event of a rule that its
\* owner has switched off since the tick read it
DeactivatedAfterRead ==
  \E p \in TickProcs :
    /\ pc[p] = "findUser"
    /\ rules[Triggering(p)].exists
    /\ ~rules[Triggering(p)].isActive
    /\ apiOp = ApiOp("update", rules[Triggering(p)].userId, Triggering(p), 200)

\* C22 (SpecRace): delete race.  A tick that holds a rule deleted after its read
\* of the active-rule list goes on without raising; its deactivation write does
\* not recreate the rule; and a deleted rule gets at most one trigger event
\* after its deletion.
DeleteRace ==
  /\ [](\A r \in RuleIds :
          firedAtDelete[r] # NotDeleted
            => ~rules[r].exists /\ fired[r] - firedAtDelete[r] <= 1)
  /\ [][\A p \in TickProcs :
          (InTriggerPath(p) /\ ~rules[Triggering(p)].exists /\ pc'[p] # pc[p])
            => caught' = caught /\ cron'.alive]_vars

\* C23 (SpecSingle): upstream failures are surfaced as errors.  A fetch whose
\* request was rejected by the upstream ends by raising or by returning a stale
\* cached fallback, never by returning an answer of its own, and it leaves the
\* cache as it was.
UpstreamFailuresSurfaced ==
  [][\A p \in ApiProcs :
       (pc[p] = "inflight" /\ pc'[p] = "returned" /\ ret'[p].upstream = "failed")
         => /\ ret'[p].kind = "throw" \/ ret'[p].via = "fallback"
            /\ CacheView' = CacheView]_vars

\* C24 (SpecRules): threshold invariant.  Every rule in the store has exactly
\* one of targetPrice and percentageChange set: targetPrice for above / below,
\* percentageChange for percent_increase / percent_decrease.
ExactlyOneThreshold ==
  \A r \in RuleIds :
    rules[r].exists
      => /\ rules[r].targetSet # rules[r].percentSet
         /\ rules[r].targetSet <=> rules[r].condition \in {"above", "below"}

\* C25 (SpecNotify): email gating.  Each trigger emits the push event, and it
\* dispatches the alert email if and only if the owner's record exists in the
\* store at that moment and has emailNotifications on; no email is dispatched
\* without a trigger.
EmailGating ==
  /\ [](\A r \in RuleIds : mailed[r] <= fired[r])
  /\ [][\A p \in TickProcs :
          (pc[p] = "findUser" /\ pc'[p] # "findUser")
            => LET r == Triggering(p)
                   userId == tk[p].alerts[tk[p].idx].doc.userId
                   owner == IF userId \in UserIds THEN users[userId] ELSE NoUser
                   eligible == owner.exists /\ owner.emailNotifications
               IN /\ fired'[r] = fired[r] + 1
                  /\ pc'[p] = "sendEmail" <=> eligible
                  /\ mailed'[r] = mailed[r] + 1 <=> eligible
                  /\ mailed'[r] \in {mailed[r], mailed[r] + 1}]_vars

\* C25 witness: both rules were triggered, the owner changed the preference
\* between the two triggers, and only the second trigger dispatched an email
PreferenceChangeHonored ==
  /\ fired = <<1, 1>>
  /\ mailed = <<0, 1>>
  /\ apiOp = ApiOp("profile", "u1", 0, 200)

\* tick p takes a step of its own
Steps(p) == pc'[p] # pc[p] \/ tk'[p] # tk[p]

\* C26 (SpecTicks): the push event comes before the deactivation.  A tick that
\* is at the deactivation write of a rule has emitted the rule's push event; the
\* write, failing or not, leaves the event emitted; and the step that ends the
\* lookup of the owner, failing or not, emits the push event.
PushBeforeDeactivation ==
  /\ [](\A p \in TickProcs : pc[p] = "deactivate" => fired[Triggering(p)] >= 1)
  /\ [][\A p \in TickProcs :
          /\ (pc[p] = "deactivate" /\ Steps(p)) => fired' = fired /\ inbox' = inbox
          /\ (pc[p] = "findUser" /\ Steps(p))
               => fired'[Triggering(p)] = fired[Triggering(p)] + 1]_vars

\* C27 (SpecTicks): per-rule isolation within a tick.  When the trigger path of
\* a rule ends, by a failing lookup, email or deactivation write or without a
\* failure, nothing is raised to the tick, and the tick goes on with the next
\* rule of its list that triggers on the snapshot, or leaves the alert check
\* if no later rule of the list triggers.
PerRuleIsolation ==
  [][\A p \in TickProcs :
       (InTriggerPath(p) /\ Steps(p))
         => LET alerts == tk[p].alerts
                i == tk[p].idx
                j == tk'[p].idx
            IN /\ caught' = caught
               /\ cron'.alive
               /\ \/ /\ pc'[p] \in {"sendEmail", "deactivate"}
                     /\ j = i
                  \/ /\ pc'[p] = "findUser"
                     /\ tk'[p].alerts = alerts
                     /\ j > i
                     /\ Triggers(alerts[j].doc, PriceData(p))
                     /\ \A k \in (i + 1)..(j - 1) : ~Triggers(alerts[k].doc, PriceData(p))
                  \/ /\ ~InAlertPath(p)'
                     /\ \A k \in (i + 1)..Len(alerts) :
                          ~Triggers(alerts[k].doc, PriceData(p))]_vars

\* C27 witness: both rules trigger on the snapshot of the tick, the lookup for
\* rule 1 failed, so that rule 1 has no trigger event, and the tick is in the
\* trigger path of rule 2
SecondRuleAfterFailure ==
  \E p \in TickProcs :
    /\ pc[p] = "findUser"
    /\ Len(tk[p].alerts) = 2
    /\ tk[p].idx = 2
    /\ Triggers(tk[p].alerts[1].doc, PriceData(p))
    /\ fired[1] = 0
    /\ caught = 0

\* C28 (SpecKeys): cache key canonicalization.  A call of getCurrentPrices that
\* begins while the cache holds an entry younger than its ttl for a list with
\* the same symbols, in any order and with any duplicates, is answered from the
\* cache and sends no upstream request.
CanonicalCacheKey ==
  [][\A p \in ApiProcs :
       (/\ pc[p] = "idle"
        /\ pc'[p] # "idle"
        /\ \E l \in RequestLists :
             /\ {l[i] : i \in 1..Len(l)}
                  = {call'[p].coins[i] : i \in 1..Len(call'[p].coins)}
             /\ Younger(redis[CacheKey(l)]))
         => /\ pc'[p] = "returned"
            /\ ret'[p].via = "cache"
            /\ requestCount' = requestCount]_vars

\* C29 (SpecOverlap): periodic history persistence.  Once the price tick of a
\* full minute and every tick before it have ended without an error, each after
\* broadcasting its snapshot, the historical store has got a sample.
HistoryEveryMinute ==
  (/\ Quiet
   /\ now >= DayMs
   /\ cron.ticks >= 2
   /\ emitted = cron.ticks
   /\ caught = 0)
    => history >= 1

\* C30 (SpecOwners): rule ownership.  A rule changes or goes only by a request
\* of its owner that is answered 200, or by the deactivation write of a tick
\* that triggered the rule, which changes isActive only; a request answered 404
\* leaves the store as it was, and a request for another user's rule is
\* answered 404.
RuleOwnership ==
  [][/\ \A r \in RuleIds :
          rules'[r] # rules[r]
            => \/ /\ apiOp'.op \in {"update", "delete"}
                  /\ apiOp' = ApiOp(apiOp'.op, rules[r].userId, r, 200)
                  /\ rules[r].exists
                  /\ apiOp'.op = "delete" => ~rules'[r].exists
                  /\ apiOp'.op = "update" => rules'[r].userId = rules[r].userId
                  /\ UNCHANGED <<pc, tk>>
               \/ /\ \E p \in TickProcs :
                       pc[p] = "deactivate" /\ Steps(p) /\ Triggering(p) = r
                  /\ rules'[r] = [rules[r] EXCEPT !.isActive = FALSE]
                  /\ UNCHANGED apiOp
     /\ (apiOp' # apiOp /\ apiOp'.op \in {"update", "delete"})
          => /\ apiOp'.status = 404 => UNCHANGED rules
             /\ (rules[apiOp'.rule].exists /\ rules[apiOp'.rule].userId # apiOp'.user)
                  => apiOp'.status = 404]_vars

\* C30 witness: the scheduler has deactivated rule 1 of u1 after triggering it,
\* and u2's request to delete it has been answered 404, the rule still stored
ForeignDeleteRefused ==
  /\ apiOp = ApiOp("delete", "u2", 1, 404)
  /\ rules[1].exists
  /\ rules[1].userId = "u1"
  /\ ~rules[1].isActive
  /\ fired[1] = 1

====
